---- MODULE Spec2Model ----
(***************************************************************************)
(* CoinbaseBaseClient (src/coinbase-api-client.js): the authenticated      *)
(* request pipeline.  One client instance, its mutable token fields, its   *)
(* event map, and the dispatcher calls (httpGet/httpPost/httpPut/          *)
(* httpDelete, revokeToken) running on it as asynchronous operations.      *)
(* refreshLog records, in order, the calls whose refresh response          *)
(* refreshToken accepted.  Every action is                                 *)
(* one run-to-completion step of the JavaScript event loop: a call from    *)
(* user code, a transport callback together with the promise continuations *)
(* it releases, or the settling of the promise a lifecycle handler         *)
(* returned.                                                               *)
(***************************************************************************)
EXTENDS Integers, Sequences, FiniteSets, TLC

VARIABLES _apiKey, _apiSecret, _accessToken, _refreshToken, _clientId,
          _clientSecret, _events, now, calls, regs, ctorOAuth, refreshLog

vars == <<_apiKey, _apiSecret, _accessToken, _refreshToken, _clientId,
          _clientSecret, _events, now, calls, regs, ctorOAuth, refreshLog>>

----------------------------------------------------------------------------
(* JavaScript values.  A value is a record tagged by its type, so that     *)
(* truthiness, property access and JSON.stringify can be computed as the   *)
(* language computes them.                                                 *)

Undefined == [k |-> "undefined"]
Null == [k |-> "null"]
Num(n) == [k |-> "number", n |-> n]
Bool(b) == [k |-> "boolean", b |-> b]
Str(s) == [k |-> "string", s |-> s]
Obj(f) == [k |-> "object", f |-> f]
EmptyObj == Obj([x \in {} |-> Undefined])

\* ToBoolean: undefined, null, 0, false and '' are falsy, every object is truthy
Truthy(v) ==
  CASE v.k = "undefined" -> FALSE
    [] v.k = "null" -> FALSE
    [] v.k = "number" -> v.n # 0
    [] v.k = "boolean" -> v.b
    [] v.k = "string" -> v.s # ""
    [] v.k = "object" -> TRUE

\* v == null (loose equality): true of null and undefined only
IsNullish(v) == v.k \in {"undefined", "null"}

\* v.field for a non-nullish v: an own property of an object, else undefined
Get(v, field) ==
  IF v.k = "object" /\ field \in DOMAIN v.f THEN v.f[field] ELSE Undefined

\* Object.entries(v).length for an object v
EntriesLength(v) == IF v.k = "object" THEN Cardinality(DOMAIN v.f) ELSE 0

\* the order in which the keys used in the model are written by JSON.stringify
KeyOrder == <<"data", "id", "errors", "a", "token", "grant_type", "client_id",
              "client_secret", "access_token", "refresh_token">>

RECURSIVE Stringify(_)
RECURSIVE StringifyFields(_, _, _)

\* the members of object v for the keys ks, comma separated; members whose
\* value is undefined are left out
StringifyFields(v, ks, first) ==
  IF ks = <<>> THEN ""
  ELSE IF Head(ks) \in DOMAIN v.f /\ v.f[Head(ks)].k # "undefined"
       THEN (IF first THEN "" ELSE ",") \o "\"" \o Head(ks) \o "\":"
              \o Stringify(v.f[Head(ks)]) \o StringifyFields(v, Tail(ks), FALSE)
       ELSE StringifyFields(v, Tail(ks), first)

\* JSON.stringify(v) as it appears inside a string concatenation
Stringify(v) ==
  CASE v.k = "undefined" -> "undefined"
    [] v.k = "null" -> "null"
    [] v.k = "number" -> ToString(v.n)
    [] v.k = "boolean" -> (IF v.b THEN "true" ELSE "false")
    [] v.k = "string" -> "\"" \o v.s \o "\""
    [] v.k = "object" -> "{" \o StringifyFields(v, KeyOrder, TRUE) \o "}"

----------------------------------------------------------------------------
(* Errors and promise outcomes                                             *)

NoErr == [name |-> "", message |-> ""]
TransportErr == [name |-> "Error", message |-> "ECONNRESET"]
HandlerErr == [name |-> "Error", message |-> "handler failed"]
HmacKeyErr == [name |-> "TypeError", message |-> "key"]
BodyTypeErr == [name |-> "TypeError", message |-> "data"]

\* new ExpiredTokenError(JSON.stringify(res.body)); new Error(undefined) has
\* the empty message
ExpiredTokenError(body) ==
  [name |-> "ExpiredTokenError",
   message |-> IF body.k = "undefined" THEN "" ELSE Stringify(body)]

\* new Error('HTTP error ' + res.statusCode + ' ' + JSON.stringify(res.body))
HttpError(statusCode, body) ==
  [name |-> "Error",
   message |-> "HTTP error " \o ToString(statusCode) \o " " \o Stringify(body)]

Pending == [state |-> "pending", value |-> Undefined, error |-> NoErr]
Resolved(v) == [state |-> "resolved", value |-> v, error |-> NoErr]
Rejected(e) == [state |-> "rejected", value |-> Undefined, error |-> e]
\* an exception thrown inside the transport's callback: nothing catches it
\* and the promise of send() is never settled
Uncaught(e) == [state |-> "uncaught", value |-> Undefined, error |-> e]
\* an exception thrown synchronously by httpGet/httpPost/... themselves
Threw(e) == [state |-> "threw", value |-> Undefined, error |-> e]

----------------------------------------------------------------------------
(* Bounds and input domains                                                *)

MaxRegs == 2
MaxTicks == 2
StartMs == 1000
TickMs == 500

COINBASE_API == "https://api.coinbase.com"

Calls == {"c1", "c2"}
Handlers == {"h1", "h2"}
Paths == {"/v2/user"}
\* the body argument of httpPost/httpPut: omitted, {} or {a: 1}
ReqBodies == {Undefined, EmptyObj, Obj([a |-> Num(1)])}

Tokens1 == Obj([access_token |-> Str("new1"), refresh_token |-> Str("r1")])
Tokens2 == Obj([access_token |-> Str("new2"), refresh_token |-> Str("r2")])
ErrBody == Obj([errors |-> Str("e")])
\* decoded bodies of 2xx responses
OkBodies == {Null, Num(0), Obj([data |-> Num(0)]), Obj([data |-> Tokens1]),
             Tokens2}

\* what the transport hands to the callback: (err, res)
Response(err, statusCode, body) ==
  [err |-> err, statusCode |-> statusCode, body |-> body]
Responses ==
  {Response(TransportErr, 0, Undefined)}
    \cup {Response(NoErr, 200, b) : b \in OkBodies}
    \cup {Response(NoErr, s, ErrBody) : s \in {300, 401}}

----------------------------------------------------------------------------
(* Request parameters                                                      *)

isOAuth == ~IsNullish(_accessToken)

getDefaultHeaders ==
  [json |-> TRUE,
   headers |-> [h \in {"CB-VERSION", "Content-Type", "Accept", "Accept-Language"} |->
                  CASE h = "CB-VERSION" -> "2016-08-09"
                    [] h = "Content-Type" -> "application/json"
                    [] h = "Accept" -> "application/json"
                    [] h = "Accept-Language" -> "en"]]

\* crypto.createHmac('sha256', key).update(message).digest('hex'): the digest
\* is kept symbolic, equal digests iff equal key and message
Hmac(key, message) == [alg |-> "sha256", key |-> key, message |-> message]

\* getAPIAuthHeaders putting Date.now() itself, in milliseconds, in the header
getAPIAuthHeaders_msHeader(path, method, body) ==
  LET timestamp == now \div 1000
      message == ToString(timestamp) \o method \o path
                   \o (IF Truthy(body) THEN Stringify(body) ELSE "")
      signature == Hmac(_apiSecret, message)
  IN [headers |-> [h \in {"CB-ACCESS-KEY", "CB-ACCESS-SIGN", "CB-ACCESS-TIMESTAMP"} |->
                     CASE h = "CB-ACCESS-KEY" -> _apiKey
                       [] h = "CB-ACCESS-SIGN" -> signature
                       [] h = "CB-ACCESS-TIMESTAMP" -> now]]

getAPIAuthHeaders(path, method, body) ==
  LET timestamp == now \div 1000
      message == ToString(timestamp) \o method \o path
                   \o (IF Truthy(body) THEN Stringify(body) ELSE "")
      signature == Hmac(_apiSecret, message)
  IN [headers |-> [h \in {"CB-ACCESS-KEY", "CB-ACCESS-SIGN", "CB-ACCESS-TIMESTAMP"} |->
                     CASE h = "CB-ACCESS-KEY" -> _apiKey
                       [] h = "CB-ACCESS-SIGN" -> signature
                       [] h = "CB-ACCESS-TIMESTAMP" -> timestamp]]

getOAuthHeaders(token) == [auth |-> [bearer |-> token]]

getAuthHeaders(path, method, body) ==
  IF isOAuth THEN getOAuthHeaders(_accessToken)
  ELSE getAPIAuthHeaders(path, method, body)

\* createHmac throws a TypeError when the key is undefined
getAuthHeadersThrows == ~isOAuth /\ IsNullish(_apiSecret)

\* assign-deep: own keys of src are copied onto target; where both sides hold
\* a plain object (headers, auth) the two are merged key by key
assign(target, src) ==
  [key \in DOMAIN target \cup DOMAIN src |->
     IF key \notin DOMAIN src THEN target[key]
     ELSE IF key \in DOMAIN target /\ key \in {"headers", "auth"}
          THEN [n \in DOMAIN target[key] \cup DOMAIN src[key] |->
                  IF n \in DOMAIN src[key] THEN src[key][n] ELSE target[key][n]]
          ELSE src[key]]

\* getRequestParams attaching every body that is not null, {} included
getRequestParams_anyBody(method, path, body) ==
  assign(assign(assign([url |-> COINBASE_API \o path], getDefaultHeaders),
                getAuthHeaders(path, method, body)),
         IF ~IsNullish(body)
         THEN [body |-> body] ELSE [x \in {} |-> Undefined])

getRequestParams(method, path, body) ==
  assign(assign(assign([url |-> COINBASE_API \o path], getDefaultHeaders),
                getAuthHeaders(path, method, body)),
         IF ~IsNullish(body) /\ EntriesLength(body) > 0
         THEN [body |-> body] ELSE [x \in {} |-> Undefined])

----------------------------------------------------------------------------
(* Dispatcher calls.  calls[c] is one invocation of httpGet/httpPost/      *)
(* httpPut/httpDelete: where it stands (pc), its arguments, the params     *)
(* object it holds, and a record of what it sent and received.             *)

IdleCall ==
  [pc |-> "idle", fn |-> "", method |-> "", path |-> "", body |-> Undefined,
   refresh |-> TRUE, params |-> [x \in {} |-> Undefined], signedAt |-> 0,
   dispatched |-> <<>>, refreshReqs |-> <<>>,
   resp1 |-> <<>>, respR |-> <<>>, resp2 |-> <<>>,
   mode1 |-> FALSE, regsAtRefresh |-> <<>>, invoked |-> <<>>,
   handlerResult |-> "none", outcome |-> Pending]

\* send() taking only 4xx and 5xx for failures
send_from400(res) ==
  IF res.err # NoErr THEN Rejected(res.err)
  ELSE IF isOAuth /\ res.statusCode = 401
       THEN Rejected(ExpiredTokenError(res.body))
  ELSE IF res.statusCode >= 400
       THEN Rejected(HttpError(res.statusCode, res.body))
  ELSE IF IsNullish(res.body) THEN Uncaught(BodyTypeErr)
  ELSE Resolved(IF Truthy(Get(res.body, "data"))
                THEN Get(res.body, "data") ELSE res.body)

\* the callback of send(): how the promise of one request settles
send(res) ==
  IF res.err # NoErr THEN Rejected(res.err)
  ELSE IF isOAuth /\ res.statusCode = 401
       THEN Rejected(ExpiredTokenError(res.body))
  ELSE IF res.statusCode >= 300
       THEN Rejected(HttpError(res.statusCode, res.body))
  ELSE IF IsNullish(res.body) THEN Uncaught(BodyTypeErr)
  ELSE Resolved(IF Truthy(Get(res.body, "data"))
                THEN Get(res.body, "data") ELSE res.body)

Init ==
  /\ \E oauth \in BOOLEAN :
       /\ ctorOAuth = oauth
       /\ _apiKey = (IF oauth THEN Undefined ELSE Str("key"))
       /\ _apiSecret = (IF oauth THEN Undefined ELSE Str("secret"))
       /\ _accessToken = (IF oauth THEN Str("old") ELSE Undefined)
       /\ _refreshToken = (IF oauth THEN Str("r0") ELSE Undefined)
       /\ _clientId = (IF oauth THEN Str("cid") ELSE Undefined)
       /\ _clientSecret = (IF oauth THEN Str("csec") ELSE Undefined)
  /\ _events = [x \in {} |-> ""]
  /\ now = StartMs
  /\ calls = [c \in Calls |-> IdleCall]
  /\ regs = <<>>
  /\ refreshLog = <<>>

\* on() keeping the handler that is already registered
On_keepFirst(h) ==
  /\ Len(regs) < MaxRegs
  /\ _events' = [n \in DOMAIN _events \cup {"didRefreshToken"} |->
                   IF n \in DOMAIN _events THEN _events[n] ELSE h]
  /\ regs' = Append(regs, h)
  /\ UNCHANGED <<_apiKey, _apiSecret, _accessToken, _refreshToken, _clientId,
                 _clientSecret, now, calls, ctorOAuth, refreshLog>>

\* on('didRefreshToken', h)
On(h) ==
  /\ Len(regs) < MaxRegs
  /\ _events' = [n \in DOMAIN _events \cup {"didRefreshToken"} |->
                   IF n = "didRefreshToken" THEN h ELSE _events[n]]
  /\ regs' = Append(regs, h)
  /\ UNCHANGED <<_apiKey, _apiSecret, _accessToken, _refreshToken, _clientId,
                 _clientSecret, now, calls, ctorOAuth, refreshLog>>

\* the clock moves on; it is read only while the client signs with the API key
Tick ==
  /\ ~isOAuth
  /\ now < StartMs + MaxTicks * TickMs
  /\ now' = now + TickMs
  /\ UNCHANGED <<_apiKey, _apiSecret, _accessToken, _refreshToken, _clientId,
                 _clientSecret, _events, calls, regs, ctorOAuth, refreshLog>>

\* httpGet/httpPost/httpPut/httpDelete: build the params, then httpRequest
\* hands them to the transport (fn) and awaits the callback
httpRequestStart(c, fn, method, path, body, refresh) ==
  /\ calls[c].pc = "idle"
  /\ calls' = [calls EXCEPT ![c] =
       IF getAuthHeadersThrows
       THEN [@ EXCEPT !.pc = "done", !.fn = fn, !.method = method,
                      !.path = path, !.body = body, !.refresh = refresh,
                      !.outcome = Threw(HmacKeyErr)]
       ELSE LET params == getRequestParams(method, path, body)
            IN [@ EXCEPT !.pc = "sent1", !.fn = fn, !.method = method,
                         !.path = path, !.body = body, !.refresh = refresh,
                         !.params = params, !.signedAt = now,
                         !.dispatched = <<params>>]]
  /\ UNCHANGED <<_apiKey, _apiSecret, _accessToken, _refreshToken, _clientId,
                 _clientSecret, _events, now, regs, ctorOAuth, refreshLog>>

httpGet(c, path, refresh) ==
  httpRequestStart(c, "get", "GET", path, Undefined, refresh)

httpPost(c, path, body, refresh) ==
  httpRequestStart(c, "post", "POST", path, body, refresh)

httpPut(c, path, body, refresh) ==
  httpRequestStart(c, "put", "PUT", path, body, refresh)

httpDelete(c, path, refresh) ==
  httpRequestStart(c, "delete", "DELETE", path, Undefined, refresh)

\* this.accessToken: the constructor stores the token as _accessToken and the
\* class defines no accessToken property, so the read gives undefined
accessToken == Undefined

\* revokeToken: httpPost('/oauth/revoke', {token: this.accessToken}), the
\* refresh argument left at its default
revokeToken(c) ==
  httpPost(c, "/oauth/revoke", Obj([token |-> accessToken]), TRUE)

\* the body refreshToken posts to /oauth/token
refreshBody ==
  Obj([grant_type |-> Str("refresh_token"), client_id |-> _clientId,
       client_secret |-> _clientSecret, refresh_token |-> _refreshToken])

\* the first response handled without looking at the refresh argument
FirstResponse_ignoreFlag(c, res) ==
  /\ calls[c].pc = "sent1"
  /\ LET r == send(res)
     IN calls' = [calls EXCEPT ![c] =
          IF r.state = "rejected" /\ r.error.name = "ExpiredTokenError"
          THEN [@ EXCEPT !.pc = "refreshing", !.resp1 = <<res>>,
                  !.mode1 = isOAuth,
                  !.refreshReqs = Append(@,
                     getRequestParams("POST", "/oauth/token", refreshBody))]
          ELSE [@ EXCEPT !.pc = "done", !.resp1 = <<res>>,
                  !.mode1 = isOAuth, !.outcome = r]]
  /\ UNCHANGED <<_apiKey, _apiSecret, _accessToken, _refreshToken, _clientId,
                 _clientSecret, _events, now, regs, ctorOAuth, refreshLog>>

\* the transport answers the first attempt.  A recoverable expiry with
\* refresh permitted goes on, in the same turn, to refreshToken and its
\* httpPost('/oauth/token', ..., false); everything else settles the call.
FirstResponse(c, res) ==
  /\ calls[c].pc = "sent1"
  /\ LET r == send(res)
     IN calls' = [calls EXCEPT ![c] =
          IF r.state = "rejected" /\ r.error.name = "ExpiredTokenError"
             /\ calls[c].refresh = TRUE
          THEN [@ EXCEPT !.pc = "refreshing", !.resp1 = <<res>>,
                  !.mode1 = isOAuth,
                  !.refreshReqs = Append(@,
                     getRequestParams("POST", "/oauth/token", refreshBody))]
          ELSE [@ EXCEPT !.pc = "done", !.resp1 = <<res>>,
                  !.mode1 = isOAuth, !.outcome = r]]
  /\ UNCHANGED <<_apiKey, _apiSecret, _accessToken, _refreshToken, _clientId,
                 _clientSecret, _events, now, regs, ctorOAuth, refreshLog>>

\* the retry of httpRequest: send(fn, assign(params, this.getOAuthHeaders()))
Retry(call, token) ==
  LET params == assign(call.params, getOAuthHeaders(token))
  IN [call EXCEPT !.pc = "sent2", !.params = params,
                  !.dispatched = Append(@, params)]

\* a refresh result stored only when no refresh has been stored before it
RefreshResponse_firstWins(c, res) ==
  /\ calls[c].pc = "refreshing"
  /\ LET r == send(res)
         ok == r.state = "resolved" /\ Truthy(r.value)
         has == "didRefreshToken" \in DOMAIN _events
         call == [calls[c] EXCEPT !.respR = <<res>>, !.regsAtRefresh = regs]
         first == refreshLog = <<>>
     IN /\ _accessToken' = (IF ok /\ first THEN Get(r.value, "access_token")
                            ELSE _accessToken)
        /\ _refreshToken' = (IF ok /\ first THEN Get(r.value, "refresh_token")
                             ELSE _refreshToken)
        /\ calls' = [calls EXCEPT ![c] =
             IF r.state # "resolved"
             THEN [call EXCEPT !.pc = "done", !.outcome = r]
             ELSE IF ~ok
             THEN [call EXCEPT !.pc = "done", !.outcome = Resolved(Undefined)]
             ELSE IF has
             THEN [call EXCEPT !.pc = "handler",
                     !.invoked = Append(@, [h |-> _events["didRefreshToken"],
                                            arg |-> r.value,
                                            accessToken |-> _accessToken',
                                            refreshToken |-> _refreshToken'])]
             ELSE Retry(call, Get(r.value, "access_token"))]
        /\ refreshLog' = (IF ok THEN Append(refreshLog, c) ELSE refreshLog)
  /\ UNCHANGED <<_apiKey, _apiSecret, _clientId, _clientSecret, _events, now,
                 regs, ctorOAuth>>

\* the access token stored in this turn, the refresh token left for a later one
RefreshResponse_halfWrite(c, res) ==
  /\ calls[c].pc = "refreshing"
  /\ LET r == send(res)
         ok == r.state = "resolved" /\ Truthy(r.value)
         has == "didRefreshToken" \in DOMAIN _events
         call == [calls[c] EXCEPT !.respR = <<res>>, !.regsAtRefresh = regs]
     IN /\ _accessToken' = (IF ok THEN Get(r.value, "access_token")
                            ELSE _accessToken)
        /\ _refreshToken' = _refreshToken
        /\ calls' = [calls EXCEPT ![c] =
             IF r.state # "resolved"
             THEN [call EXCEPT !.pc = "done", !.outcome = r]
             ELSE IF ~ok
             THEN [call EXCEPT !.pc = "done", !.outcome = Resolved(Undefined)]
             ELSE IF has
             THEN [call EXCEPT !.pc = "handler",
                     !.invoked = Append(@, [h |-> _events["didRefreshToken"],
                                            arg |-> r.value,
                                            accessToken |-> _accessToken',
                                            refreshToken |-> _refreshToken'])]
             ELSE Retry(call, Get(r.value, "access_token"))]
        /\ refreshLog' = (IF ok THEN Append(refreshLog, c) ELSE refreshLog)
  /\ UNCHANGED <<_apiKey, _apiSecret, _clientId, _clientSecret, _events, now,
                 regs, ctorOAuth>>

\* the tokens taken from whatever body came back, error responses included
RefreshResponse_storeOnFailure(c, res) ==
  /\ calls[c].pc = "refreshing"
  /\ LET r == send(res)
         ok == r.state = "resolved" /\ Truthy(r.value)
         has == "didRefreshToken" \in DOMAIN _events
         call == [calls[c] EXCEPT !.respR = <<res>>, !.regsAtRefresh = regs]
     IN /\ _accessToken' = (IF ok THEN Get(r.value, "access_token")
                            ELSE IF res.err = NoErr
                            THEN Get(res.body, "access_token")
                            ELSE _accessToken)
        /\ _refreshToken' = (IF ok THEN Get(r.value, "refresh_token")
                             ELSE IF res.err = NoErr
                             THEN Get(res.body, "refresh_token")
                             ELSE _refreshToken)
        /\ calls' = [calls EXCEPT ![c] =
             IF r.state # "resolved"
             THEN [call EXCEPT !.pc = "done", !.outcome = r]
             ELSE IF ~ok
             THEN [call EXCEPT !.pc = "done", !.outcome = Resolved(Undefined)]
             ELSE IF has
             THEN [call EXCEPT !.pc = "handler",
                     !.invoked = Append(@, [h |-> _events["didRefreshToken"],
                                            arg |-> r.value,
                                            accessToken |-> _accessToken',
                                            refreshToken |-> _refreshToken'])]
             ELSE Retry(call, Get(r.value, "access_token"))]
        /\ refreshLog' = (IF ok THEN Append(refreshLog, c) ELSE refreshLog)
  /\ UNCHANGED <<_apiKey, _apiSecret, _clientId, _clientSecret, _events, now,
                 regs, ctorOAuth>>

\* the handler invoked first: with a handler registered the tokens are not
\* yet replaced when it runs
RefreshResponse_handlerFirst(c, res) ==
  /\ calls[c].pc = "refreshing"
  /\ LET r == send(res)
         ok == r.state = "resolved" /\ Truthy(r.value)
         has == "didRefreshToken" \in DOMAIN _events
         call == [calls[c] EXCEPT !.respR = <<res>>, !.regsAtRefresh = regs]
     IN /\ _accessToken' = (IF ok /\ ~has THEN Get(r.value, "access_token")
                            ELSE _accessToken)
        /\ _refreshToken' = (IF ok /\ ~has THEN Get(r.value, "refresh_token")
                             ELSE _refreshToken)
        /\ calls' = [calls EXCEPT ![c] =
             IF r.state # "resolved"
             THEN [call EXCEPT !.pc = "done", !.outcome = r]
             ELSE IF ~ok
             THEN [call EXCEPT !.pc = "done", !.outcome = Resolved(Undefined)]
             ELSE IF has
             THEN [call EXCEPT !.pc = "handler",
                     !.invoked = Append(@, [h |-> _events["didRefreshToken"],
                                            arg |-> r.value,
                                            accessToken |-> _accessToken',
                                            refreshToken |-> _refreshToken'])]
             ELSE Retry(call, Get(r.value, "access_token"))]
        /\ refreshLog' = (IF ok THEN Append(refreshLog, c) ELSE refreshLog)
  /\ UNCHANGED <<_apiKey, _apiSecret, _clientId, _clientSecret, _events, now,
                 regs, ctorOAuth>>

\* the transport answers the refresh request.  The request was made with
\* refresh = false, so every rejection ends refreshToken and the call.  With
\* a truthy result the tokens are replaced and the handler, if any, is
\* invoked and awaited; without a handler the retry goes out in this turn.
RefreshResponse(c, res) ==
  /\ calls[c].pc = "refreshing"
  /\ LET r == send(res)
         ok == r.state = "resolved" /\ Truthy(r.value)
         has == "didRefreshToken" \in DOMAIN _events
         call == [calls[c] EXCEPT !.respR = <<res>>, !.regsAtRefresh = regs]
     IN /\ _accessToken' = (IF ok THEN Get(r.value, "access_token")
                            ELSE _accessToken)
        /\ _refreshToken' = (IF ok THEN Get(r.value, "refresh_token")
                             ELSE _refreshToken)
        /\ calls' = [calls EXCEPT ![c] =
             IF r.state # "resolved"
             THEN [call EXCEPT !.pc = "done", !.outcome = r]
             ELSE IF ~ok
             THEN [call EXCEPT !.pc = "done", !.outcome = Resolved(Undefined)]
             ELSE IF has
             THEN [call EXCEPT !.pc = "handler",
                     !.invoked = Append(@, [h |-> _events["didRefreshToken"],
                                            arg |-> r.value,
                                            accessToken |-> _accessToken',
                                            refreshToken |-> _refreshToken'])]
             ELSE Retry(call, Get(r.value, "access_token"))]
        /\ refreshLog' = (IF ok THEN Append(refreshLog, c) ELSE refreshLog)
  /\ UNCHANGED <<_apiKey, _apiSecret, _clientId, _clientSecret, _events, now,
                 regs, ctorOAuth>>

\* the handler's failure swallowed: the retry goes out all the same
HandlerSettles_swallow(c, fulfilled) ==
  /\ calls[c].pc = "handler"
  /\ calls' = [calls EXCEPT ![c] =
       Retry([@ EXCEPT !.handlerResult =
                IF fulfilled THEN "fulfilled" ELSE "rejected"], _accessToken)]
  /\ UNCHANGED <<_apiKey, _apiSecret, _accessToken, _refreshToken, _clientId,
                 _clientSecret, _events, now, regs, ctorOAuth, refreshLog>>

\* the promise awaited at `await handler(res)` settles
HandlerSettles(c, fulfilled) ==
  /\ calls[c].pc = "handler"
  /\ calls' = [calls EXCEPT ![c] =
       IF fulfilled
       THEN Retry([@ EXCEPT !.handlerResult = "fulfilled"], _accessToken)
       ELSE [@ EXCEPT !.pc = "done", !.handlerResult = "rejected",
                      !.outcome = Rejected(HandlerErr)]]
  /\ UNCHANGED <<_apiKey, _apiSecret, _accessToken, _refreshToken, _clientId,
                 _clientSecret, _events, now, regs, ctorOAuth, refreshLog>>

\* the retry treated like a first attempt: an expiry starts another refresh
RetryResponse_refreshAgain(c, res) ==
  /\ calls[c].pc = "sent2"
  /\ LET r == send(res)
     IN calls' = [calls EXCEPT ![c] =
          IF r.state = "rejected" /\ r.error.name = "ExpiredTokenError"
          THEN [@ EXCEPT !.pc = "refreshing", !.resp2 = <<res>>,
                  !.refreshReqs = Append(@,
                     getRequestParams("POST", "/oauth/token", refreshBody))]
          ELSE [@ EXCEPT !.pc = "done", !.resp2 = <<res>>, !.outcome = r]]
  /\ UNCHANGED <<_apiKey, _apiSecret, _accessToken, _refreshToken, _clientId,
                 _clientSecret, _events, now, regs, ctorOAuth, refreshLog>>

\* the transport answers the retry: whatever send() gives is the call's result
RetryResponse(c, res) ==
  /\ calls[c].pc = "sent2"
  /\ calls' = [calls EXCEPT ![c] =
       [@ EXCEPT !.pc = "done", !.resp2 = <<res>>, !.outcome = send(res)]]
  /\ UNCHANGED <<_apiKey, _apiSecret, _accessToken, _refreshToken, _clientId,
                 _clientSecret, _events, now, regs, ctorOAuth, refreshLog>>

\* The explored scenarios: any single call, with every method, body and
\* refresh flag; or several calls on the one client, concurrent or one after
\* the other, all of them httpGet.
Lean(fn) == fn = "get"
InScenario(c, fn) ==
  \A d \in Calls \ {c} :
    \/ calls[d].pc = "idle"
    \/ Lean(fn) /\ Lean(calls[d].fn)

Next ==
  \/ \E h \in Handlers : On(h)
  \/ Tick
  \/ \E c \in Calls, p \in Paths, rf \in BOOLEAN :
       InScenario(c, "get") /\ httpGet(c, p, rf)
  \/ \E c \in Calls, p \in Paths, b \in ReqBodies, rf \in BOOLEAN :
       InScenario(c, "post") /\ httpPost(c, p, b, rf)
  \/ \E c \in Calls, p \in Paths, b \in ReqBodies, rf \in BOOLEAN :
       InScenario(c, "put") /\ httpPut(c, p, b, rf)
  \/ \E c \in Calls, p \in Paths, rf \in BOOLEAN :
       InScenario(c, "delete") /\ httpDelete(c, p, rf)
  \/ \E c \in Calls : InScenario(c, "post") /\ revokeToken(c)
  \/ \E c \in Calls, res \in Responses : FirstResponse(c, res)
  \/ \E c \in Calls, res \in Responses : RefreshResponse(c, res)
  \/ \E c \in Calls, fulfilled \in BOOLEAN : HandlerSettles(c, fulfilled)
  \/ \E c \in Calls, res \in Responses : RetryResponse(c, res)

Spec == Init /\ [][Next]_vars

----------------------------------------------------------------------------
(* Vocabulary of the properties                                            *)

\* a response that send() rejects on: a transport error or a status >= 300
Failed(res) == res.err # NoErr \/ res.statusCode >= 300
Is401(res) == res.err = NoErr /\ res.statusCode = 401
Succeeded(res) == ~Failed(res)

\* the envelope rule as the specification words it: the data field when the
\* decoded body has one, else the body itself
HasData(body) == body.k = "object" /\ "data" \in DOMAIN body.f
Unwrapped(body) == IF HasData(body) THEN body.f["data"] ELSE body

Settled(c) == calls[c].outcome.state \in {"resolved", "rejected"}

\* the call went through: first attempt 401, refresh answered 2xx, retry sent
\* and answered 2xx with a decoded body
RefreshedThenSucceeded(c) ==
  /\ calls[c].refresh = TRUE
  /\ Len(calls[c].resp1) = 1 /\ Is401(calls[c].resp1[1]) /\ calls[c].mode1
  /\ Len(calls[c].respR) = 1 /\ Succeeded(calls[c].respR[1])
  /\ Len(calls[c].resp2) = 1 /\ Succeeded(calls[c].resp2[1])
  /\ ~IsNullish(calls[c].resp2[1].body)

\* the call went through: first attempt 401, refresh answered 2xx, retry sent
\* and answered with a transport error or a status >= 300
RefreshedThenFailed(c) ==
  /\ calls[c].refresh = TRUE
  /\ Len(calls[c].resp1) = 1 /\ Is401(calls[c].resp1[1]) /\ calls[c].mode1
  /\ Len(calls[c].respR) = 1 /\ Succeeded(calls[c].respR[1])
  /\ Len(calls[c].resp2) = 1 /\ Failed(calls[c].resp2[1])

----------------------------------------------------------------------------
(* C1: an OAuth call with refresh permitted whose first response is a 401, *)
(* whose refresh succeeds and whose retry succeeds resolves with the       *)
(* unwrapped body of the retried response, has called the refresh endpoint *)
(* exactly once, has invoked the registered handler exactly once with the  *)
(* refresh response, and has retried with the access token that refresh    *)
(* returned, on the same URL and body.                                     *)
C1_RefreshRetrySucceeds ==
  \A c \in Calls :
    RefreshedThenSucceeded(c) =>
      LET call == calls[c]
          refreshed == Unwrapped(call.respR[1].body)
      IN /\ call.pc = "done"
         /\ call.outcome = Resolved(Unwrapped(call.resp2[1].body))
         /\ Len(call.refreshReqs) = 1
         /\ (call.regsAtRefresh # <<>> =>
               /\ Len(call.invoked) = 1
               /\ call.invoked[1].arg = refreshed)
         /\ Len(call.dispatched) = 2
         /\ call.dispatched[2].auth.bearer = Get(refreshed, "access_token")
         /\ call.dispatched[2].url = call.dispatched[1].url
         /\ ("body" \in DOMAIN call.dispatched[2]
               <=> "body" \in DOMAIN call.dispatched[1])
         /\ ("body" \in DOMAIN call.dispatched[1] =>
               call.dispatched[2].body = call.dispatched[1].body)

(* C2: when the retry after a successful refresh fails (a second 401       *)
(* included) the call rejects with the error of the retried request, the   *)
(* original request has been dispatched exactly twice and the refresh      *)
(* endpoint called exactly once; the call stays settled, so no dispatch    *)
(* and no refresh follows.                                                 *)
C2_RetryFailureIsTerminal ==
  \A c \in Calls :
    RefreshedThenFailed(c) =>
      LET call == calls[c]
          res == call.resp2[1]
      IN /\ call.pc = "done"
         /\ call.outcome.state = "rejected"
         /\ (res.err # NoErr => call.outcome.error = res.err)
         /\ (res.err = NoErr =>
               call.outcome.error \in {ExpiredTokenError(res.body),
                                       HttpError(res.statusCode, res.body)})
         /\ Len(call.dispatched) = 2
         /\ Len(call.refreshReqs) = 1

C2_Witness ==
  \E c \in Calls :
    /\ RefreshedThenFailed(c)
    /\ Is401(calls[c].resp2[1])
    /\ calls[c].outcome.error.name = "ExpiredTokenError"

(* C3: every failure surfaces as a rejection: when the original request    *)
(* ended in a transport error or a status >= 300 and no retry of it        *)
(* succeeded, a settled call is rejected, never resolved with a value.     *)
C3_FailuresReject ==
  \A c \in Calls :
    LET call == calls[c]
    IN ( /\ Len(call.resp1) = 1 /\ Failed(call.resp1[1])
         /\ ~(Len(call.resp2) = 1 /\ Succeeded(call.resp2[1]))
         /\ Settled(c) )
       => call.outcome.state = "rejected"

(* C4: with refresh = false a 401 in OAuth mode is terminal and triggers   *)
(* no refresh; a 401 from the refresh endpoint rejects the call without a  *)
(* nested refresh; one dispatcher call makes at most one refresh call.     *)
C4_NoRefreshWhenForbidden ==
  \A c \in Calls :
    LET call == calls[c]
    IN /\ Len(call.refreshReqs) <= 1
       /\ (call.refresh = FALSE => call.refreshReqs = <<>>)
       /\ (call.refresh = FALSE /\ Len(call.resp1) = 1 /\ Is401(call.resp1[1])
             /\ call.mode1 =>
             /\ call.pc = "done"
             /\ call.outcome = Rejected(ExpiredTokenError(call.resp1[1].body))
             /\ Len(call.dispatched) = 1)
       /\ (Len(call.respR) = 1 /\ Is401(call.respR[1]) =>
             /\ call.pc = "done"
             /\ call.outcome.state = "rejected"
             /\ call.outcome.error \in
                  {ExpiredTokenError(call.respR[1].body),
                   HttpError(401, call.respR[1].body)}
             /\ Len(call.refreshReqs) = 1
             /\ Len(call.dispatched) = 1)

C4_Witness ==
  /\ \E c \in Calls :
       /\ calls[c].refresh = FALSE /\ calls[c].mode1
       /\ Len(calls[c].resp1) = 1 /\ Is401(calls[c].resp1[1])
  /\ \E c \in Calls : Len(calls[c].respR) = 1 /\ Is401(calls[c].respR[1])

(* C5: the auth mode is fixed at construction: whatever requests,        *)
(* refresh responses and handler invocations follow, the client is in      *)
(* OAuth mode exactly if it was constructed in OAuth mode.                 *)
C5_ModeFixedAtConstruction == isOAuth = ctorOAuth

(* C6: when the didRefreshToken handler throws or its promise rejects, the *)
(* call rejects with the handler's error and the original request is not   *)
(* retried: it has been dispatched exactly once.                           *)
C6_HandlerFailureAbortsRetry ==
  \A c \in Calls :
    calls[c].handlerResult = "rejected" =>
      /\ calls[c].pc = "done"
      /\ calls[c].outcome = Rejected(HandlerErr)
      /\ Len(calls[c].dispatched) = 1
      /\ calls[c].resp2 = <<>>

C6_Witness ==
  \E c \in Calls :
    calls[c].handlerResult = "rejected" /\ Len(calls[c].invoked) = 1

\* a refresh whose 2xx response refreshToken accepts: the result is truthy
\* (a falsy body has no data member, so the result is truthy iff the body is)
AcceptedRefresh(c) ==
  /\ Len(calls[c].respR) = 1
  /\ Succeeded(calls[c].respR[1])
  /\ Truthy(calls[c].respR[1].body)

(* C7: a successful refresh invokes only the handler registered last, once,*)
(* with the refresh response; handlers registered before it are not        *)
(* invoked; with no registration nothing is invoked and the refresh still  *)
(* succeeds, the retry going out.                                          *)
C7_LastRegistrationWins ==
  \A c \in Calls :
    LET call == calls[c]
    IN /\ Len(call.invoked) <= 1
       /\ (call.invoked # <<>> => AcceptedRefresh(c))
       /\ (AcceptedRefresh(c) /\ call.regsAtRefresh # <<>> =>
             /\ Len(call.invoked) = 1
             /\ call.invoked[1].h = call.regsAtRefresh[Len(call.regsAtRefresh)]
             /\ call.invoked[1].arg \in
                  {call.respR[1].body, Get(call.respR[1].body, "data")})
       /\ (AcceptedRefresh(c) /\ call.regsAtRefresh = <<>> =>
             /\ call.invoked = <<>>
             /\ Len(call.dispatched) = 2)

C7_Witness ==
  \E c \in Calls :
    /\ AcceptedRefresh(c)
    /\ Len(calls[c].regsAtRefresh) = 2
    /\ calls[c].regsAtRefresh[1] # calls[c].regsAtRefresh[2]
    /\ Len(calls[c].invoked) = 1

(* C8: a transport error, and a status >= 300 that is not a 401 in OAuth   *)
(* mode, is terminal: the call rejects after exactly one dispatch, without *)
(* a refresh call or a handler invocation; the transport error is          *)
(* surfaced unchanged and a status error carries the status code and the   *)
(* body.  In API-key mode this includes 401.                               *)
C8_OtherFailuresAreTerminal ==
  \A c \in Calls :
    LET call == calls[c]
    IN (Len(call.resp1) = 1 /\ Failed(call.resp1[1])
          /\ ~(Is401(call.resp1[1]) /\ call.mode1)) =>
         LET res == call.resp1[1]
         IN /\ call.pc = "done"
            /\ call.outcome.state = "rejected"
            /\ call.outcome.error =
                 (IF res.err # NoErr THEN res.err
                  ELSE [name |-> "Error",
                        message |-> "HTTP error " \o ToString(res.statusCode)
                                       \o " " \o Stringify(res.body)])
            /\ Len(call.dispatched) = 1
            /\ call.refreshReqs = <<>>
            /\ call.invoked = <<>>

C8_Witness ==
  /\ \E c \in Calls :
       /\ Len(calls[c].resp1) = 1 /\ Is401(calls[c].resp1[1])
       /\ ~calls[c].mode1 /\ calls[c].outcome.state = "rejected"
  /\ \E c \in Calls :
       /\ Len(calls[c].resp1) = 1 /\ calls[c].resp1[1].err = TransportErr
       /\ calls[c].outcome = Rejected(TransportErr)

\* the response that decided the result of a call that resolved or that got
\* a 2xx answer to its last request
LastResponse(c) ==
  IF Len(calls[c].resp2) = 1 THEN calls[c].resp2[1] ELSE calls[c].resp1[1]

(* C9: envelope unwrapping: a successful response whose decoded body has a *)
(* data field resolves the call with the value of that field, whatever the *)
(* value (null, 0, false, ''); a body without data resolves the call with  *)
(* the body unchanged.                                                     *)
C9_EnvelopeUnwrapping ==
  \A c \in Calls :
    (/\ calls[c].pc = "done"
     /\ Len(calls[c].resp1) = 1
     /\ (Len(calls[c].resp2) = 1 \/ calls[c].refreshReqs = <<>>)
     /\ Succeeded(LastResponse(c))
     /\ ~IsNullish(LastResponse(c).body)) =>
      calls[c].outcome = Resolved(Unwrapped(LastResponse(c).body))

\* the requests that were signed with the API key
Signed(c) ==
  /\ calls[c].dispatched # <<>>
  /\ "CB-ACCESS-SIGN" \in DOMAIN calls[c].dispatched[1].headers

(* C10: in API-key mode the signature header is HMAC_SHA256(apiSecret,     *)
(* ts + method + path + bodyString) for the ts carried by the timestamp    *)
(* header of the same request, ts being the clock read once at signing;    *)
(* two signings at one clock value with equal inputs give equal headers.   *)
C10_SignatureMatchesTimestamp ==
  /\ \A c \in Calls :
       Signed(c) =>
         LET call == calls[c]
             headers == call.dispatched[1].headers
             ts == headers["CB-ACCESS-TIMESTAMP"]
             bodyString == IF Truthy(call.body) THEN Stringify(call.body)
                           ELSE ""
         IN /\ ts = call.signedAt \div 1000
            /\ headers["CB-ACCESS-SIGN"] =
                 [alg |-> "sha256", key |-> _apiSecret,
                  message |-> ToString(ts) \o call.method \o call.path
                                \o bodyString]
            /\ headers["CB-ACCESS-KEY"] = _apiKey
  /\ \A c, d \in Calls :
       (/\ Signed(c) /\ Signed(d)
        /\ calls[c].signedAt = calls[d].signedAt
        /\ calls[c].method = calls[d].method
        /\ calls[c].path = calls[d].path
        /\ calls[c].body = calls[d].body) =>
         calls[c].dispatched[1].headers = calls[d].dispatched[1].headers

C10_Witness ==
  /\ \E c \in Calls :
       /\ Signed(c)
       /\ calls[c].signedAt = StartMs + TickMs
       /\ Truthy(calls[c].body)
  /\ ~ctorOAuth

\* the request of call c as first handed to the transport
FirstParams(c) == calls[c].dispatched[1]

(* C11: when the body is omitted (GET, DELETE, POST/PUT without a body) or *)
(* is an object with no entries, the outgoing params have no body field at *)
(* all; a body with at least one entry is in the params exactly as given.  *)
C11_BodyOnlyWhenNonEmpty ==
  \A c \in Calls :
    calls[c].dispatched # <<>> =>
      \A i \in 1..Len(calls[c].dispatched) :
        LET params == calls[c].dispatched[i]
            body == calls[c].body
        IN /\ (body = Undefined \/ body = EmptyObj =>
                 "body" \notin DOMAIN params)
           /\ (body.k = "object" /\ DOMAIN body.f # {} =>
                 "body" \in DOMAIN params /\ params.body = body)

C11_Witness ==
  \E c \in Calls :
    /\ calls[c].dispatched # <<>>
    /\ calls[c].method = "PUT"
    /\ calls[c].body = EmptyObj
    /\ "body" \notin DOMAIN FirstParams(c)

IsRevoke(c) == calls[c].path = "/oauth/revoke"

\* the token pair the constructor stored
CtorTokens ==
  IF ctorOAuth THEN <<Str("old"), Str("r0")>> ELSE <<Undefined, Undefined>>

(* C12: a 401 answer to revokeToken is terminal: the call is rejected, no  *)
(* request goes to the refresh endpoint, the stored tokens are untouched   *)
(* and the revoke request is not sent again.                               *)
C12_Revoke401IsTerminal ==
  \A c \in Calls :
    (IsRevoke(c) /\ Len(calls[c].resp1) = 1 /\ Is401(calls[c].resp1[1])) =>
      /\ calls[c].pc = "done"
      /\ calls[c].outcome.state = "rejected"
      /\ calls[c].refreshReqs = <<>>
      /\ Len(calls[c].dispatched) = 1
      /\ <<_accessToken, _refreshToken>> = CtorTokens

\* the token pair a refresh response carries
TokensOf(res) ==
  <<Get(Unwrapped(res.body), "access_token"),
    Get(Unwrapped(res.body), "refresh_token")>>

(* C13: concurrent calls are not de-duplicated: every call that meets a    *)
(* 401 with refresh permitted posts its own refresh request, whatever the  *)
(* other calls are doing; every successful refresh invokes the registered  *)
(* handler; and the stored pair is the one of the refresh response that    *)
(* was processed last.                                                     *)
C13_RefreshesNotDeduplicated ==
  /\ \A c \in Calls :
       (Len(calls[c].resp1) = 1 /\ Is401(calls[c].resp1[1])
          /\ calls[c].mode1 /\ calls[c].refresh = TRUE) =>
         Len(calls[c].refreshReqs) = 1
  /\ \A c \in Calls :
       (AcceptedRefresh(c) /\ calls[c].regsAtRefresh # <<>>) =>
         Len(calls[c].invoked) = 1
  /\ refreshLog # <<>> =>
       <<_accessToken, _refreshToken>> =
         TokensOf(calls[refreshLog[Len(refreshLog)]].respR[1])

\* both calls asked for a refresh with the construction-time refresh token,
\* so neither refresh had been stored when the other was requested; both
\* were accepted with different token pairs and both calls have finished
C13_Witness ==
  /\ Len(refreshLog) = 2 /\ refreshLog[1] # refreshLog[2]
  /\ \A c \in Calls :
       /\ calls[c].pc = "done"
       /\ Len(calls[c].refreshReqs) = 1
       /\ Get(calls[c].refreshReqs[1].body, "refresh_token") = Str("r0")
       /\ Len(calls[c].invoked) = 1
  /\ TokensOf(calls[refreshLog[1]].respR[1])
       # TokensOf(calls[refreshLog[2]].respR[1])
  /\ _accessToken = Str("new2")

(* C14: the token pair is replaced atomically: in every state, each one   *)
(* a point where other asynchronous work on the client can run, the stored *)
(* accessToken and refreshToken are both the construction-time values or   *)
(* both taken from one and the same refresh response.                      *)
C14_TokenPairAtomic ==
  \/ <<_accessToken, _refreshToken>> = CtorTokens
  \/ \E c \in Calls :
       /\ AcceptedRefresh(c)
       /\ <<_accessToken, _refreshToken>> = TokensOf(calls[c].respR[1])

\* one call is awaiting its handler, in the middle of refreshToken, with its
\* pair stored, while the other call's refresh request is in flight
C14_Witness ==
  \E c, d \in Calls :
    /\ c # d
    /\ calls[c].pc = "handler"
    /\ calls[d].pc = "refreshing"
    /\ <<_accessToken, _refreshToken>> = TokensOf(calls[c].respR[1])
    /\ <<_accessToken, _refreshToken>> = <<Str("new2"), Str("r2")>>

(* C15: the stored tokens change only on a successful refresh: a step    *)
(* that changes them is the processing of a 2xx refresh response, and a    *)
(* refresh that fails (transport error or status >= 300) leaves both       *)
(* tokens as they were and invokes no handler.                             *)
C15_TokensChangeOnlyOnRefresh ==
  [][ /\ (<<_accessToken', _refreshToken'>> # <<_accessToken, _refreshToken>> =>
            \E c \in Calls :
              /\ calls[c].pc = "refreshing"
              /\ Len(calls'[c].respR) = 1
              /\ Succeeded(calls'[c].respR[1])
              /\ <<_accessToken', _refreshToken'>> = TokensOf(calls'[c].respR[1]))
      /\ \A c \in Calls :
           (/\ calls[c].pc = "refreshing"
            /\ Len(calls'[c].respR) = 1
            /\ Failed(calls'[c].respR[1])) =>
             /\ <<_accessToken', _refreshToken'>> = <<_accessToken, _refreshToken>>
             /\ calls'[c].invoked = <<>>
             /\ calls'[c].outcome.state = "rejected" ]_vars

\* a refresh has failed with a handler registered: the construction-time
\* tokens are still there
C15_Witness ==
  \E c \in Calls :
    /\ Len(calls[c].respR) = 1 /\ Failed(calls[c].respR[1])
    /\ calls[c].regsAtRefresh # <<>>
    /\ calls[c].invoked = <<>>
    /\ <<_accessToken, _refreshToken>> = <<Str("old"), Str("r0")>>

(* C16: the refresh request is an unauthenticated POST: it carries no     *)
(* bearer token and no API-key signature headers, only grant_type, client  *)
(* id, client secret and refresh token in its body.                        *)
C16_RefreshIsUnauthenticated ==
  \A c \in Calls :
    \A i \in 1..Len(calls[c].refreshReqs) :
      LET params == calls[c].refreshReqs[i]
      IN /\ "auth" \notin DOMAIN params
         /\ DOMAIN params.headers \cap
              {"CB-ACCESS-KEY", "CB-ACCESS-SIGN", "CB-ACCESS-TIMESTAMP"} = {}
         /\ params.url = "https://api.coinbase.com/oauth/token"
         /\ "body" \in DOMAIN params
         /\ DOMAIN params.body.f =
              {"grant_type", "client_id", "client_secret", "refresh_token"}
         /\ params.body.f["grant_type"] = Str("refresh_token")
         /\ params.body.f["client_id"] = _clientId
         /\ params.body.f["client_secret"] = _clientSecret

(* C17: in API-key mode the signature covers the body actually sent: the  *)
(* body part of the signed message is the empty string exactly when the    *)
(* outgoing params have no body field, and the JSON of the outgoing body   *)
(* otherwise (body omitted, {} and non-empty alike).                       *)
C17_SignatureCoversSentBody ==
  \A c \in Calls :
    Signed(c) =>
      LET params == FirstParams(c)
          sent == IF "body" \in DOMAIN params THEN Stringify(params.body)
                  ELSE ""
      IN params.headers["CB-ACCESS-SIGN"].message =
           ToString(params.headers["CB-ACCESS-TIMESTAMP"])
             \o calls[c].method \o calls[c].path \o sent

(* C18: within a refresh the tokens are replaced before the handler is   *)
(* invoked: when the handler runs the client already holds the new         *)
(* accessToken and refreshToken; when the handler fails the new tokens     *)
(* stay (until some later refresh replaces them) although the original     *)
(* request is not retried.                                                 *)
C18_TokensReplacedBeforeHandler ==
  \A c \in Calls :
    /\ calls[c].invoked # <<>> =>
         <<calls[c].invoked[1].accessToken, calls[c].invoked[1].refreshToken>>
           = TokensOf(calls[c].respR[1])
    /\ (calls[c].handlerResult = "rejected"
          /\ refreshLog[Len(refreshLog)] = c) =>
         /\ <<_accessToken, _refreshToken>> = TokensOf(calls[c].respR[1])
         /\ Len(calls[c].dispatched) = 1

C18_Witness ==
  \E c \in Calls :
    /\ calls[c].handlerResult = "rejected"
    /\ refreshLog = <<c>>
    /\ calls[c].invoked[1].accessToken = Str("new2")
    /\ <<_accessToken, _refreshToken>> = <<Str("new2"), Str("r2")>>

(* C19: every dispatcher call settles: for every response (any status, any *)
(* decoded body, a missing or null body included) a call that has received *)
(* its answers and has nothing left to run is resolved or rejected, after   *)
(* at most two dispatches of the original request and one refresh.          *)
C19_EveryCallSettles ==
  \A c \in Calls :
    /\ Len(calls[c].dispatched) <= 2
    /\ Len(calls[c].refreshReqs) <= 1
    /\ (calls[c].pc = "done" /\ calls[c].resp1 # <<>>) => Settled(c)

(* C20: the revoke request names the token to revoke: the body of the POST *)
(* sent by revokeToken carries, in its token field, the access token the   *)
(* client holds when the request is built.                                 *)
C20_RevokeNamesCurrentToken ==
  \A c \in Calls :
    (IsRevoke(c) /\ ctorOAuth /\ calls[c].dispatched # <<>>) =>
      /\ "body" \in DOMAIN FirstParams(c)
      /\ Get(FirstParams(c).body, "token") = FirstParams(c).auth.bearer

====
